---- MODULE Spec2Model ----
(***************************************************************************)
(* Model of src/openvpn/dco_win.c: the Windows data-channel-offload        *)
(* control adapter.  dco_create_socket builds the OVPN_NEW_PEER           *)
(* descriptor, opens the device handle, submits OVPN_IOCTL_NEW_PEER and    *)
(* polls the overlapped request in dco_connect_wait; dco_start_tun,        *)
(* dco_new_key, dco_del_key, dco_swap_keys and ovpn_set_peer are the       *)
(* synchronous control requests issued on the handle afterwards.           *)
(*                                                                         *)
(* The driver and the signal source are the environment: the driver may    *)
(* complete or fail the pending request at any moment, and the signal      *)
(* source may store a signal in the flag at any moment during the call.    *)
(***************************************************************************)
EXTENDS Integers, Sequences, FiniteSets, TLC

\* ------------------------------------------------------------------ bounds
\* largest timeout (whole seconds) a caller passes to dco_create_socket
MaxTimeout == 1
\* longest list of local address candidates (struct addrinfo *bind)
MaxBind == 2
\* most dco_start_tun calls made on one handle
MaxStart == 2

\* --------------------------------------------------------------- constants
poll_interval_ms == 50
SIGUSR1 == 10
SIGTERM == 15

Signals == {SIGUSR1, SIGTERM}

RemoteFamilies == {"AF_INET", "AF_INET6", "AF_UNSPEC"}
BindFamilies == {"AF_INET", "AF_INET6"}
Protocols == {"IPPROTO_TCP", "IPPROTO_UDP"}
SockTypes == {"SOCK_STREAM", "SOCK_DGRAM"}

\* GetLastError() values the driver can produce for the new-peer request
ERROR_IO_PENDING == "ERROR_IO_PENDING"
WAIT_TIMEOUT == "WAIT_TIMEOUT"
ERROR_IO_INCOMPLETE == "ERROR_IO_INCOMPLETE"
DriverErrors == {"ERROR_CONNECTION_REFUSED"}

LoopPcs == {"loop", "waiting", "check", "yield"}

\* ---------------------------------------------------------------- helpers
\* lists of at most n elements of S
SeqUpTo(S, n) == UNION {[1..k -> S] : k \in 0..n}

\* a zeroed SOCKADDR (OVPN_NEW_PEER peer = { 0 })
ZeroAddr == [sin_family |-> "0", addr |-> 0, port |-> 0]

\* the sockaddr a remote addrinfo points to
RemoteSockaddr(fam) == [sin_family |-> fam, addr |-> 100, port |-> 1194]

\* the sockaddr the i-th node of the bind list points to
BindSockaddr(bind, i) == [sin_family |-> bind[i], addr |-> i, port |-> 1000 + i]

\* ------------------------------------------------------- descriptor builder
\* the transport read from the protocol alone
peer_Proto_protocol_only(ra) ==
    IF ra.ai_protocol = "IPPROTO_TCP"
    THEN "OVPN_PROTO_TCP"
    ELSE "OVPN_PROTO_UDP"

\* lines 143-151: transport classification
peer_Proto(ra) ==
    IF ra.ai_protocol = "IPPROTO_TCP" \/ ra.ai_socktype = "SOCK_STREAM"
    THEN "OVPN_PROTO_TCP"
    ELSE "OVPN_PROTO_UDP"

\* lines 156-163: while (bind && !local): index of the node whose ai_addr
\* becomes local, 0 when local stays NULL
RECURSIVE ScanBind(_, _, _)
ScanBind(bnd, i, fam) ==
    IF i > Len(bnd) THEN 0
    ELSE IF bnd[i] = fam THEN i
    ELSE ScanBind(bnd, i + 1, fam)

\* the scan without its "!local" stop: the last matching node wins
RECURSIVE ScanBindLast(_, _, _)
ScanBindLast(bnd, i, fam) ==
    IF i < 1 THEN 0
    ELSE IF bnd[i] = fam THEN i
    ELSE ScanBindLast(bnd, i - 1, fam)

LastMatch(bnd, fam) == ScanBindLast(bnd, Len(bnd), fam)

\* line 155: "Use first local address with correct address family"
FirstMatch(bnd, fam) == ScanBind(bnd, 1, fam)

\* the scan without the family test: the first node is taken
SelectLocal_any_family(bl, bnd, fam) == IF bl /\ Len(bnd) > 0 THEN 1 ELSE 0

\* lines 153-164: local is looked for only when bind_local is set
SelectLocal(bl, bnd, fam) == IF bl THEN FirstMatch(bnd, fam) ELSE 0

\* in4addr_any / in6addr_any, port 0, in the given family
Wildcard(fam) == [sin_family |-> fam, addr |-> 0, port |-> 0]

\* lines 172-199: fill the family variant of the OVPN_NEW_PEER union
FillPeer(ra, bnd, local) ==
    LET fam == ra.ai_addr.sin_family
        loc == IF local # 0 THEN BindSockaddr(bnd, local) ELSE Wildcard(fam)
    IN  IF fam = "AF_INET6"
        THEN [Proto  |-> peer_Proto(ra),
              Remote |-> [Addr4 |-> ZeroAddr, Addr6 |-> ra.ai_addr],
              Local  |-> [Addr4 |-> ZeroAddr, Addr6 |-> loc]]
        ELSE [Proto  |-> peer_Proto(ra),
              Remote |-> [Addr4 |-> ra.ai_addr, Addr6 |-> ZeroAddr],
              Local  |-> [Addr4 |-> loc, Addr6 |-> ZeroAddr]]

\* OVPN_NEW_PEER peer = { 0 }
ZeroPeer == [Proto  |-> "0",
             Remote |-> [Addr4 |-> ZeroAddr, Addr6 |-> ZeroAddr],
             Local  |-> [Addr4 |-> ZeroAddr, Addr6 |-> ZeroAddr]]

\* ------------------------------------------------------------------- state
VARIABLES
    pc,               \* position of the control thread
    remoteaddr,       \* argument: resolved remote candidate
    bind_local,       \* argument: binding requested
    bind,             \* argument: families of the local candidates, in order
    timeout,          \* argument: timeout in whole seconds
    peer,             \* OVPN_NEW_PEER being built
    hand,             \* tt.hand: "none", "open" or "closed"
    signal_received,  \* *signal_received, the cancellation flag
    timeout_msec,     \* DWORD timeout_msec of dco_connect_wait
    ov,               \* the overlapped NEW_PEER request inside the driver
    err,              \* DWORD err of the current loop iteration
    waitRet,          \* value dco_connect_wait returned
    outcome,          \* which return of the connect path was taken
    fatal,            \* which fatal msg() ended the process, "none" if none
    ioctls,           \* control requests that reached the driver, in order
    submitted,        \* the descriptor the NEW_PEER request carried
    dco_tt,           \* tt->dco.tt: "NULL" until dco_start_tun stores tt in it
    hist              \* bookkeeping of what the call did

connVars == <<pc, remoteaddr, bind_local, bind, timeout, peer, hand,
              signal_received, timeout_msec, ov, err, waitRet, outcome, fatal,
              ioctls, submitted, dco_tt, hist>>

\* key provisioning and peer parameters (used after the peer is connected)
VARIABLES
    slots,            \* driver: key material held in each key slot
    active,           \* driver: the slot used for sending
    keepalive,        \* driver: keepalive interval and timeout of the peer
    call              \* the last key / peer-parameter call and what it did

keyVars == <<slots, active, keepalive, call>>

\* where the call stood when the flag was first set from outside: "idle" (set
\* before the call), "before" (before the loop), "wait" (a wait in progress or
\* ended with its check still to come), "between" (after an iteration's check
\* and before the next wait), "ret" (after the loop)
Phase(p) ==
    CASE p \in {"waiting", "check"} -> "wait"
      [] p \in {"loop", "yield"} -> "between"
      [] p \in {"open", "submit"} -> "before"
      [] OTHER -> p

NoExt == [phase |-> "none", waits |-> 0, budget |-> FALSE]

InitHist == [opens |-> 0, closes |-> 0, waits |-> 0, checks |-> 0,
             yields |-> 0, selfSet |-> FALSE,
             extAt |-> NoExt, completedAt |-> 0, errorAt |-> 0,
             newPeerRes |-> "none"]

NoRemote == [ai_protocol |-> "none", ai_socktype |-> "none", ai_addr |-> ZeroAddr]

ConnInit ==
    /\ pc = "idle"
    /\ remoteaddr = NoRemote
    /\ bind_local = FALSE
    /\ bind = <<>>
    /\ timeout = 0
    /\ peer = ZeroPeer
    /\ hand = "none"
    /\ signal_received = 0
    /\ timeout_msec = 0
    /\ ov = "none"
    /\ err = "none"
    /\ waitRet = 0
    /\ outcome = "none"
    /\ fatal = "none"
    /\ ioctls = <<>>
    /\ submitted = ZeroPeer
    /\ dco_tt = "NULL"
    /\ hist = InitHist

\* --------------------------------------------------------- dco_create_socket
\* lines 131-203: the call with its arguments; builds the descriptor or
\* ends in msg(M_FATAL) / ASSERT(0)
dco_create_socket_build ==
    /\ pc = "idle"
    /\ \E fam \in RemoteFamilies, proto \in Protocols, st \in SockTypes,
          bl \in BOOLEAN, bnd \in SeqUpTo(BindFamilies, MaxBind),
          t \in 0..MaxTimeout, sig0 \in {0} \cup Signals :
        LET ra == [ai_protocol |-> proto, ai_socktype |-> st,
                   ai_addr |-> RemoteSockaddr(fam)]
            local == SelectLocal(bl, bnd, fam)
        IN  /\ remoteaddr' = ra
            /\ bind_local' = bl
            /\ bind' = bnd
            /\ timeout' = t
            /\ signal_received' = sig0
            /\ hist' = [hist EXCEPT !.extAt = IF sig0 # 0
                                                         THEN [phase |-> "idle", waits |-> 0,
                                                               budget |-> FALSE]
                                                         ELSE NoExt]
            /\ IF bl /\ local = 0
               THEN /\ pc' = "fatal"
                    /\ fatal' = "bind"
                    /\ peer' = [ZeroPeer EXCEPT !.Proto = peer_Proto(ra)]
               ELSE IF fam \notin {"AF_INET", "AF_INET6"}
               THEN /\ pc' = "fatal"
                    /\ fatal' = "assert"
                    /\ peer' = [ZeroPeer EXCEPT !.Proto = peer_Proto(ra)]
               ELSE /\ pc' = "open"
                    /\ fatal' = fatal
                    /\ peer' = FillPeer(ra, bnd, local)
    /\ UNCHANGED <<hand, timeout_msec, ov, err, waitRet, outcome, ioctls, submitted>>
    /\ UNCHANGED <<dco_tt, keyVars>>

\* a handle service that also starts the offload when it opens the device
create_dco_handle_starting ==
    /\ pc = "open"
    /\ hand' = "open"
    /\ hist' = [hist EXCEPT !.opens = @ + 1]
    /\ ioctls' = Append(ioctls, "OVPN_IOCTL_START_VPN")
    /\ pc' = "submit"
    /\ UNCHANGED <<remoteaddr, bind_local, bind, timeout, peer, signal_received,
                   timeout_msec, ov, err, waitRet, outcome, fatal, submitted>>
    /\ UNCHANGED <<dco_tt, keyVars>>

\* a call that looks at the flag before it opens the device
create_dco_handle_unless_signalled ==
    /\ pc = "open"
    /\ IF signal_received # 0
       THEN /\ pc' = "done"
            /\ outcome' = "cancelled"
            /\ UNCHANGED <<hand, hist>>
       ELSE /\ hand' = "open"
            /\ hist' = [hist EXCEPT !.opens = @ + 1]
            /\ pc' = "submit"
            /\ UNCHANGED outcome
    /\ UNCHANGED <<remoteaddr, bind_local, bind, timeout, peer, signal_received,
                   timeout_msec, ov, err, waitRet, fatal, ioctls, submitted>>
    /\ UNCHANGED <<dco_tt, keyVars>>

\* lines 45-54, 205: create_dco_handle opens the device
create_dco_handle ==
    /\ pc = "open"
    /\ hand' = "open"
    /\ hist' = [hist EXCEPT !.opens = @ + 1]
    /\ pc' = "submit"
    /\ UNCHANGED <<remoteaddr, bind_local, bind, timeout, peer, signal_received,
                   timeout_msec, ov, err, waitRet, outcome, fatal, ioctls, submitted>>
    /\ UNCHANGED <<dco_tt, keyVars>>

\* A DWORD is kept as its 32-bit pattern read as a two's-complement number:
\* addition and subtraction are then the machine's, and the unsigned test
\* "x > 0" is "x # 0" (every nonzero pattern is a positive DWORD).
\* a budget that always allows one wait
InitialBudget_one_wait_at_least(t) == IF t = 0 THEN poll_interval_ms ELSE t * 1000

\* line 90: DWORD timeout_msec = timeout * 1000
InitialBudget(t) == t * 1000

\* an immediate success sent into the wait loop like a pending request
NewPeerBranch_always_waits(r) ==
    IF r = "success" \/ r = ERROR_IO_PENDING THEN "wait" ELSE "fatal"

\* lines 208-217: what dco_create_socket does with the result r of
\* DeviceIoControl(OVPN_IOCTL_NEW_PEER)
NewPeerBranch(r) ==
    IF r = "success" THEN "return"
    ELSE IF r # ERROR_IO_PENDING THEN "fatal"
    ELSE "wait"

\* lines 207-217: DeviceIoControl(OVPN_IOCTL_NEW_PEER) and its three outcomes
dco_create_socket_new_peer ==
    /\ pc = "submit"
    /\ ioctls' = Append(ioctls, "OVPN_IOCTL_NEW_PEER")
    /\ submitted' = peer
    /\ \E r \in {"success", ERROR_IO_PENDING} \cup DriverErrors :
        /\ hist' = [hist EXCEPT !.newPeerRes = r]
        /\ ov' = IF r = ERROR_IO_PENDING THEN "pending" ELSE "none"
        /\ IF NewPeerBranch(r) = "return"
           THEN /\ pc' = "done"
                /\ outcome' = "success"
                /\ UNCHANGED <<fatal, timeout_msec>>
           ELSE IF NewPeerBranch(r) = "fatal"
           THEN /\ pc' = "fatal"
                /\ fatal' = "OVPN_IOCTL_NEW_PEER"
                /\ UNCHANGED <<outcome, timeout_msec>>
           ELSE /\ pc' = "loop"
                /\ timeout_msec' = InitialBudget(timeout)
                /\ UNCHANGED <<outcome, fatal>>
    /\ UNCHANGED <<remoteaddr, bind_local, bind, timeout, peer, hand,
                   signal_received, err, waitRet>>
    /\ UNCHANGED <<dco_tt, keyVars>>

\* ---------------------------------------------------------- dco_connect_wait
\* the loop test written against the quantum: leaves the loop one wait early
BudgetLeft_above_quantum(ms) == ms > poll_interval_ms

\* line 93: while (timeout_msec > 0)
BudgetLeft(ms) == ms # 0

\* lines 93-98 and 124-128: loop test; either the budget is decremented and
\* a bounded wait starts, or the loop is left with a timeout
dco_connect_wait_loop ==
    /\ pc = "loop"
    /\ IF BudgetLeft(timeout_msec)
       THEN /\ timeout_msec' = timeout_msec - poll_interval_ms
            /\ hist' = [hist EXCEPT !.waits = @ + 1]
            /\ pc' = "waiting"
            /\ UNCHANGED <<signal_received, waitRet, outcome>>
       ELSE /\ signal_received' = SIGUSR1
            /\ hist' = [hist EXCEPT !.selfSet = TRUE]
            /\ waitRet' = -1
            /\ outcome' = "timeout"
            /\ pc' = "ret"
            /\ UNCHANGED timeout_msec
    /\ UNCHANGED <<remoteaddr, bind_local, bind, timeout, peer, hand, ov, err,
                   fatal, ioctls, submitted>>
    /\ UNCHANGED <<dco_tt, keyVars>>

\* ERROR_IO_INCOMPLETE forgotten among the statuses that mean "still pending"
StillPending_only_timeout(e) == e = WAIT_TIMEOUT

\* line 105: statuses that mean "still pending"
StillPending(e) == e = WAIT_TIMEOUT \/ e = ERROR_IO_INCOMPLETE

\* lines 98-113: the bounded wait ends
dco_connect_wait_result ==
    /\ pc = "waiting"
    /\ IF ov = "complete"
       THEN /\ waitRet' = 0
            /\ outcome' = "success"
            /\ pc' = "ret"
            /\ hist' = [hist EXCEPT !.completedAt = hist.waits]
            /\ UNCHANGED <<err, signal_received>>
       ELSE \E e \in (IF ov = "pending" THEN {WAIT_TIMEOUT, ERROR_IO_INCOMPLETE}
                                        ELSE {ov}) :
            /\ err' = e
            /\ IF ~StillPending(e)
               THEN /\ signal_received' = SIGUSR1
                    /\ hist' = [hist EXCEPT !.selfSet = TRUE, !.errorAt = hist.waits]
                    /\ waitRet' = -1
                    /\ outcome' = "driver_error"
                    /\ pc' = "ret"
               ELSE /\ pc' = "check"
                    /\ UNCHANGED <<signal_received, hist, waitRet, outcome>>
    /\ UNCHANGED <<remoteaddr, bind_local, bind, timeout, peer, hand,
                   timeout_msec, ov, fatal, ioctls, submitted>>
    /\ UNCHANGED <<dco_tt, keyVars>>

\* get_signal(signal_received): brings the flag up to date with the signal
\* source; the flag is the single cancellation channel, so its value stands
get_signal(sig) == sig

\* the flag compared with one signal instead of tested for nonzero
SignalSet_only_SIGUSR1(sig) == sig = SIGUSR1

\* line 116: if (*signal_received)
SignalSet(sig) == sig # 0

\* a check that reads the flag and yields all the same
dco_connect_wait_check_always_yields ==
    /\ pc = "check"
    /\ signal_received' = get_signal(signal_received)
    /\ pc' = "yield"
    /\ hist' = [hist EXCEPT !.checks = @ + 1]
    /\ UNCHANGED <<remoteaddr, bind_local, bind, timeout, peer, hand,
                   timeout_msec, ov, err, waitRet, outcome, fatal, ioctls,
                   submitted>>
    /\ UNCHANGED <<dco_tt, keyVars>>

\* lines 115-119: check the cancellation flag
dco_connect_wait_check ==
    /\ pc = "check"
    /\ signal_received' = get_signal(signal_received)
    /\ IF SignalSet(signal_received')
       THEN /\ waitRet' = -1
            /\ outcome' = "cancelled"
            /\ pc' = "ret"
       ELSE /\ pc' = "yield"
            /\ UNCHANGED <<waitRet, outcome>>
    /\ hist' = [hist EXCEPT !.checks = @ + 1]
    /\ UNCHANGED <<remoteaddr, bind_local, bind, timeout, peer, hand,
                   timeout_msec, ov, err, fatal, ioctls, submitted>>
    /\ UNCHANGED <<dco_tt, keyVars>>

\* an iteration that ends by submitting the request again
dco_connect_wait_yield_resubmits ==
    /\ pc = "yield"
    /\ hist' = [hist EXCEPT !.yields = @ + 1]
    /\ err' = "none"
    /\ pc' = "submit"
    /\ UNCHANGED <<remoteaddr, bind_local, bind, timeout, peer, hand,
                   signal_received, timeout_msec, ov, waitRet, outcome, fatal,
                   ioctls, submitted>>
    /\ UNCHANGED <<dco_tt, keyVars>>

\* line 121: management_sleep(0), the end of one iteration
dco_connect_wait_yield ==
    /\ pc = "yield"
    /\ hist' = [hist EXCEPT !.yields = @ + 1]
    /\ err' = "none"
    /\ pc' = "loop"
    /\ UNCHANGED <<remoteaddr, bind_local, bind, timeout, peer, hand,
                   signal_received, timeout_msec, ov, waitRet, outcome, fatal,
                   ioctls, submitted>>
    /\ UNCHANGED <<dco_tt, keyVars>>

\* the result of dco_connect_wait tested the wrong way round
WaitFailed_inverted(ret) == ret = 0

\* line 217: if (dco_connect_wait(...))
WaitFailed(ret) == ret # 0

\* lines 217-223: back in dco_create_socket; a nonzero result closes the handle
dco_create_socket_return ==
    /\ pc = "ret"
    /\ IF WaitFailed(waitRet)
       THEN /\ hand' = "closed"
            /\ hist' = [hist EXCEPT !.closes = @ + 1]
       ELSE UNCHANGED <<hand, hist>>
    /\ err' = "none"
    /\ pc' = "done"
    /\ UNCHANGED <<remoteaddr, bind_local, bind, timeout, peer, signal_received,
                   timeout_msec, ov, waitRet, outcome, fatal, ioctls, submitted>>
    /\ UNCHANGED <<dco_tt, keyVars>>

\* ---------------------------------------------------------------- environment
\* the driver finishes the pending request, with success or with an error
DriverComplete ==
    /\ pc \in LoopPcs
    /\ ov = "pending"
    /\ \E r \in {"complete"} \cup DriverErrors : ov' = r
    /\ UNCHANGED <<pc, remoteaddr, bind_local, bind, timeout, peer, hand,
                   signal_received, timeout_msec, err, waitRet, outcome, fatal,
                   ioctls, submitted, dco_tt, hist>>
    /\ UNCHANGED <<dco_tt, keyVars>>

\* a signal arrives from outside while dco_create_socket is running
ExternalSignal ==
    /\ pc \in {"open", "submit", "ret"} \cup LoopPcs
    /\ \E s \in Signals :
        /\ signal_received # s
        /\ signal_received' = s
    /\ hist' = [hist EXCEPT !.extAt = IF @ = NoExt
                                      THEN [phase |-> Phase(pc), waits |-> hist.waits,
                                            budget |-> BudgetLeft(timeout_msec)]
                                      ELSE @]
    /\ UNCHANGED <<pc, remoteaddr, bind_local, bind, timeout, peer, hand,
                   timeout_msec, ov, err, waitRet, outcome, fatal, ioctls,
                   submitted>>
    /\ UNCHANGED <<dco_tt, keyVars>>

\* ------------------------------------------------------------- dco_start_tun
StartCount == Len(SelectSeq(ioctls, LAMBDA c : c = "OVPN_IOCTL_START_VPN"))

\* lines 69-85: OVPN_IOCTL_START_VPN on the handle dco_create_socket returned
dco_start_tun ==
    /\ pc = "done"
    /\ StartCount < MaxStart
    /\ dco_tt' = "tt"
    /\ IF hand = "open"
       THEN /\ ioctls' = Append(ioctls, "OVPN_IOCTL_START_VPN")
            /\ \E ok \in BOOLEAN :
                IF ok THEN UNCHANGED <<pc, fatal>>
                ELSE /\ pc' = "fatal"
                     /\ fatal' = "OVPN_IOCTL_START_VPN"
       ELSE /\ pc' = "fatal"
            /\ fatal' = "OVPN_IOCTL_START_VPN"
            /\ UNCHANGED ioctls
    /\ UNCHANGED <<remoteaddr, bind_local, bind, timeout, peer, hand,
                   signal_received, timeout_msec, ov, err, waitRet, outcome,
                   submitted, hist>>
    /\ UNCHANGED keyVars

\* ------------------------------------------------------------ key provisioning
Slots == {"OVPN_KEY_SLOT_PRIMARY", "OVPN_KEY_SLOT_SECONDARY"}
PeerIds == {7}
KeyIds == {0, 1}
Ciphers == {"AES-128-GCM", "AES-256-GCM", "none", "BF-CBC"}
\* lengths of the key buffers a caller hands in
BufLens == {16, 32}
\* what a read past the end of a caller's buffer can find
GarbageBytes == {255}

\* line 272: const int nonce_len = 8
nonce_len == 8
\* capacity of OVPN_KEY_DIRECTION.Key
KeyCapacity == 32

\* cipher_kt_key_size(ciphername): the key length the cipher requires
cipher_kt_key_size(name) ==
    CASE name = "AES-128-GCM" -> 16
      [] name = "AES-256-GCM" -> 32
      [] name = "CHACHA20-POLY1305" -> 32
      [] name = "BF-CBC" -> 16
      [] OTHER -> 0

\* dco_get_cipher(ciphername): the driver's cipher code, 0 for "none",
\* -1 for a cipher the driver does not know
dco_get_cipher(name) ==
    CASE name \in {"AES-128-GCM", "AES-256-GCM"} -> 1
      [] name = "CHACHA20-POLY1305" -> 2
      [] name = "none" -> 0
      [] OTHER -> -1

\* Byte arrays are written run by run: n bytes of value b, and so on
Bytes(b, n) == IF n > 0 THEN <<[byte |-> b, count |-> n]>> ELSE <<>>

\* the key buffer a caller holds for key keyid in direction dir (1 encrypt,
\* 2 decrypt): len bytes that identify the key
KeyBuffer(keyid, dir, len) == [byte |-> 16 * (keyid + 1) + dir, len |-> len]

\* the 8-byte nonce tail the caller holds for key keyid in direction dir
IvBuffer(keyid, dir) == [byte |-> 128 + 16 * (keyid + 1) + dir, len |-> nonce_len]

\* number of bytes CopyMemory reads past the end of src
BytesBeyond(src, n) == IF n > src.len THEN n - src.len ELSE 0

\* CopyMemory(dst, src, n) into a zeroed array of cap bytes: n bytes are read
\* starting at src; bytes past the end of src are whatever lies there (g)
CopyMemory(cap, src, n, g) ==
    Bytes(src.byte, n - BytesBeyond(src, n)) \o Bytes(g, BytesBeyond(src, n))
        \o Bytes(0, cap - n)

\* ZeroMemory(&crypto_data, sizeof(crypto_data))
ZeroKeyDirection == [Key |-> Bytes(0, KeyCapacity), KeyLen |-> 0,
                     NonceTail |-> Bytes(0, nonce_len)]

ZeroCryptoData == [CipherAlg |-> 0, KeyId |-> 0, PeerId |-> 0, KeySlot |-> "0",
                   Encrypt |-> ZeroKeyDirection, Decrypt |-> ZeroKeyDirection]

\* lines 283-285, 287-289: one direction of the key-slot descriptor
KeyDirection(buf, iv, key_len, g) ==
    [Key       |-> CopyMemory(KeyCapacity, buf, key_len, g),
     KeyLen    |-> key_len % 256,
     NonceTail |-> CopyMemory(nonce_len, iv, nonce_len, g)]

\* lines 275-289: the descriptor dco_new_key builds
BuildCryptoData(peerid, keyid, slot, ebuf, dbuf, ciphername, g) ==
    LET key_len == cipher_kt_key_size(ciphername)
    IN  [CipherAlg |-> dco_get_cipher(ciphername),
         KeyId     |-> keyid,
         PeerId    |-> peerid,
         KeySlot   |-> slot,
         Encrypt   |-> KeyDirection(ebuf, IvBuffer(keyid, 1), key_len, g),
         Decrypt   |-> KeyDirection(dbuf, IvBuffer(keyid, 2), key_len, g)]

\* what the driver keeps of an installed descriptor
KeyMaterial(cd) == [CipherAlg |-> cd.CipherAlg, KeyId |-> cd.KeyId,
                    Encrypt |-> cd.Encrypt, Decrypt |-> cd.Decrypt]

NoCall == [op |-> "none", args |-> <<>>, ret |-> 0, reqs |-> <<>>, beyond |-> 0]
NoKeepalive == [KeepaliveInterval |-> 0, KeepaliveTimeout |-> 0]

\* one request that reached the driver
Request(code, payload) == [code |-> code, payload |-> payload]

KeyInit ==
    /\ slots = [s \in Slots |-> KeyMaterial(ZeroCryptoData)]
    /\ active = "OVPN_KEY_SLOT_PRIMARY"
    /\ keepalive = NoKeepalive
    /\ call = NoCall

\* the process is alive and holds a started tunnel
Connected == pc = "done" /\ dco_tt = "tt" /\ hand = "open"

\* the record of a finished call
Called(op, args, ret, reqs, beyond) ==
    [op |-> op, args |-> args, ret |-> ret, reqs |-> reqs, beyond |-> beyond]

\* a driver cipher code that the ASSERT in front of the request lets through
CipherUsable_nonnegative(alg) == alg >= 0

\* line 291: ASSERT(crypto_data.CipherAlg > 0)
CipherUsable(alg) == alg > 0

\* lines 262-303: dco_new_key with its arguments.  A key buffer shorter than
\* key_len makes CopyMemory read past its end: the read either faults or
\* yields the bytes that happen to lie there.
dco_new_key_call(peerid, keyid, slot, ciphername, elen, dlen, g, faults, accepted) ==
    LET ebuf == KeyBuffer(keyid, 1, elen)
        dbuf == KeyBuffer(keyid, 2, dlen)
        key_len == cipher_kt_key_size(ciphername)
        beyond == BytesBeyond(ebuf, key_len) + BytesBeyond(dbuf, key_len)
        cd == BuildCryptoData(peerid, keyid, slot, ebuf, dbuf, ciphername, g)
        args == <<peerid, keyid, slot, ciphername, elen, dlen>>
        req == Request("OVPN_IOCTL_NEW_KEY", cd)
    IN  /\ (beyond = 0 => ~faults)
        /\ IF dco_get_cipher(ciphername) < 0
           THEN /\ pc' = "fatal"
                /\ fatal' = "unsupported cipher"
                /\ call' = Called("dco_new_key", args, -1, <<>>, 0)
                /\ UNCHANGED slots
           ELSE IF faults
           THEN /\ pc' = "fatal"
                /\ fatal' = "access violation"
                /\ call' = Called("dco_new_key", args, -1, <<>>, beyond)
                /\ UNCHANGED slots
           ELSE IF ~CipherUsable(cd.CipherAlg)
           THEN /\ pc' = "fatal"
                /\ fatal' = "assert"
                /\ call' = Called("dco_new_key", args, -1, <<>>, beyond)
                /\ UNCHANGED slots
           ELSE IF accepted
           THEN /\ slots' = [slots EXCEPT ![slot] = KeyMaterial(cd)]
                /\ call' = Called("dco_new_key", args, 0, <<req>>, beyond)
                /\ UNCHANGED <<pc, fatal>>
           ELSE /\ pc' = "fatal"
                /\ fatal' = "OVPN_IOCTL_NEW_KEY"
                /\ call' = Called("dco_new_key", args, -1, <<req>>, beyond)
                /\ UNCHANGED slots

dco_new_key ==
    /\ Connected
    /\ \E peerid \in PeerIds, keyid \in KeyIds, slot \in Slots,
          ciphername \in Ciphers, elen \in BufLens, dlen \in BufLens,
          g \in GarbageBytes, faults \in BOOLEAN, accepted \in BOOLEAN :
        dco_new_key_call(peerid, keyid, slot, ciphername, elen, dlen, g,
                         faults, accepted)
    /\ UNCHANGED <<active, keepalive>>
    /\ UNCHANGED <<remoteaddr, bind_local, bind, timeout, peer, hand,
                   signal_received, timeout_msec, ov, err, waitRet, outcome,
                   ioctls, submitted, dco_tt, hist>>

\* a dco_del_key that makes the driver forget the key of the named slot
dco_del_key_clears ==
    /\ Connected
    /\ \E peerid \in PeerIds, slot \in Slots :
        /\ call' = Called("dco_del_key", <<peerid, slot>>, 0, <<>>, 0)
        /\ slots' = [slots EXCEPT ![slot] = KeyMaterial(ZeroCryptoData)]
    /\ UNCHANGED <<active, keepalive>>
    /\ UNCHANGED connVars

\* lines 304-311: dco_del_key is logged and ignored
dco_del_key ==
    /\ Connected
    /\ \E peerid \in PeerIds, slot \in Slots :
        call' = Called("dco_del_key", <<peerid, slot>>, 0, <<>>, 0)
    /\ UNCHANGED <<slots, active, keepalive>>
    /\ UNCHANGED connVars

OtherSlot(s) == IF s = "OVPN_KEY_SLOT_PRIMARY" THEN "OVPN_KEY_SLOT_SECONDARY"
                ELSE "OVPN_KEY_SLOT_PRIMARY"

\* a swap request that names the peer in its input buffer
SwapRequest_with_peer(peer_id) == Request("OVPN_IOCTL_SWAP_KEYS", <<peer_id>>)

\* line 318: DeviceIoControl(hand, OVPN_IOCTL_SWAP_KEYS, NULL, 0, ...): the
\* request has no input buffer, peer_id is only logged
SwapRequest(peer_id) == Request("OVPN_IOCTL_SWAP_KEYS", <<>>)

\* lines 313-326: dco_swap_keys; the driver toggles the active slot
dco_swap_keys ==
    /\ Connected
    /\ \E peer_id \in PeerIds, accepted \in BOOLEAN :
        LET req == SwapRequest(peer_id)
        IN  IF accepted
            THEN /\ active' = OtherSlot(active)
                 /\ call' = Called("dco_swap_keys", <<peer_id>>, 0, <<req>>, 0)
                 /\ UNCHANGED <<pc, fatal>>
            ELSE /\ pc' = "fatal"
                 /\ fatal' = "OVPN_IOCTL_SWAP_KEYS"
                 /\ call' = Called("dco_swap_keys", <<peer_id>>, -1, <<req>>, 0)
                 /\ UNCHANGED active
    /\ UNCHANGED <<slots, keepalive>>
    /\ UNCHANGED <<remoteaddr, bind_local, bind, timeout, peer, hand,
                   signal_received, timeout_msec, ov, err, waitRet, outcome,
                   ioctls, submitted, dco_tt, hist>>

KeepaliveValues == {0, 10}
KeepaliveTimeouts == {60}

\* a rejected request reported with msg(M_ERR): the process ends
SetPeerFailure_fatal(p, f) == [pc |-> "fatal", fatal |-> "OVPN_IOCTL_SET_PEER"]

\* lines 256-257: msg(M_WARN, ...); return -1: the process goes on from p, f
SetPeerFailure(p, f) == [pc |-> p, fatal |-> f]

\* lines 240-260: ovpn_set_peer; a rejected request is a warning
ovpn_set_peer ==
    /\ Connected
    /\ \E peerid \in PeerIds, keepalive_interval \in KeepaliveValues,
          keepalive_timeout \in KeepaliveTimeouts, accepted \in BOOLEAN :
        LET p == [KeepaliveInterval |-> keepalive_interval,
                  KeepaliveTimeout |-> keepalive_timeout]
            args == <<peerid, keepalive_interval, keepalive_timeout>>
            req == Request("OVPN_IOCTL_SET_PEER", p)
        IN  IF accepted
            THEN /\ keepalive' = p
                 /\ call' = Called("ovpn_set_peer", args, 0, <<req>>, 0)
                 /\ UNCHANGED <<pc, fatal>>
            ELSE /\ call' = Called("ovpn_set_peer", args, -1, <<req>>, 0)
                 /\ pc' = SetPeerFailure(pc, fatal).pc
                 /\ fatal' = SetPeerFailure(pc, fatal).fatal
                 /\ UNCHANGED keepalive
    /\ UNCHANGED <<slots, active>>
    /\ UNCHANGED <<remoteaddr, bind_local, bind, timeout, peer, hand,
                   signal_received, timeout_msec, ov, err, waitRet, outcome,
                   ioctls, submitted, dco_tt, hist>>

\* the state after dco_create_socket succeeded at once for an IPv4 UDP peer
\* without binding and dco_start_tun was accepted
ConnectedInit ==
    LET ra == [ai_protocol |-> "IPPROTO_UDP", ai_socktype |-> "SOCK_DGRAM",
               ai_addr |-> RemoteSockaddr("AF_INET")]
    IN  /\ pc = "done"
        /\ remoteaddr = ra
        /\ bind_local = FALSE
        /\ bind = <<>>
        /\ timeout = 0
        /\ peer = FillPeer(ra, <<>>, 0)
        /\ hand = "open"
        /\ signal_received = 0
        /\ timeout_msec = 0
        /\ ov = "none"
        /\ err = "none"
        /\ waitRet = 0
        /\ outcome = "success"
        /\ fatal = "none"
        /\ ioctls = <<"OVPN_IOCTL_NEW_PEER", "OVPN_IOCTL_START_VPN">>
        /\ submitted = FillPeer(ra, <<>>, 0)
        /\ dco_tt = "tt"
        /\ hist = [InitHist EXCEPT !.opens = 1, !.newPeerRes = "success"]

vars == <<connVars, keyVars>>

Init == ConnInit /\ KeyInit

Next ==
    \/ dco_create_socket_build
    \/ create_dco_handle
    \/ dco_create_socket_new_peer
    \/ dco_connect_wait_loop
    \/ dco_connect_wait_result
    \/ dco_connect_wait_check
    \/ dco_connect_wait_yield
    \/ dco_create_socket_return
    \/ DriverComplete
    \/ ExternalSignal
    \/ dco_start_tun

Spec == Init /\ [][Next]_vars

InitKeys == ConnectedInit /\ KeyInit

NextKeys ==
    \/ dco_new_key
    \/ dco_del_key
    \/ dco_swap_keys
    \/ ovpn_set_peer

SpecKeys == InitKeys /\ [][NextKeys]_vars

\* ======================================================================
\* Properties
\* ======================================================================
Finished == pc \in {"done", "fatal"}

\* the call went through the wait loop: NEW_PEER was answered "pending"
WentPending == hist.newPeerRes = ERROR_IO_PENDING

\* number of waits that exhaust a timeout of t seconds
WaitsFor(t) == (t * 1000) \div poll_interval_ms

\* the family of the remote endpoint
RemoteFamily == remoteaddr.ai_addr.sin_family

\* the local endpoint of a descriptor, read in the remote's family variant
LocalOf(p) == IF RemoteFamily = "AF_INET6" THEN p.Local.Addr6 ELSE p.Local.Addr4

\* the flag was first set from outside while the wait loop was running with
\* budget left (a wait in progress counts as budget left)
ExtInLoop ==
    \/ hist.extAt.phase = "wait"
    \/ hist.extAt.phase = "between" /\ hist.extAt.budget

\* C1: every run of dco_create_socket that opened the handle and did not end
\* in success has released the handle exactly once by the time it ends.
C1_ReleasedExactlyOnce ==
    (Finished /\ hist.opens = 1 /\ outcome # "success")
        => (hist.closes = 1 /\ hand = "closed")

\* C2: a pending request that no wait sees completed or failed, with the flag
\* never set from outside and a timeout of T >= 1 seconds, makes the call do
\* exactly 20*T waits, then set the flag to SIGUSR1, report the timeout and
\* release the handle; no request reaches the driver on it afterwards.
C2_TimeoutAfterAllWaits ==
    /\ (WentPending /\ pc \in LoopPcs \cup {"ret", "done", "fatal"})
          => timeout_msec = timeout * 1000 - hist.waits * poll_interval_ms
    /\ (WentPending /\ timeout >= 1 /\ hist.extAt = NoExt
            /\ hist.completedAt = 0 /\ hist.errorAt = 0)
          => /\ hist.waits <= 20 * timeout
             /\ pc \in {"ret", "done", "fatal"} =>
                  /\ hist.waits = 20 * timeout
                  /\ hist.waits = WaitsFor(timeout)
                  /\ outcome = "timeout"
                  /\ waitRet = -1
                  /\ signal_received = SIGUSR1
                  /\ hist.selfSet
                  /\ StartCount = 0
             /\ pc \in {"done", "fatal"} => (hand = "closed" /\ hist.closes = 1)

C2_Witness ==
    /\ pc = "done" /\ outcome = "timeout" /\ timeout = 1 /\ hist.waits = 20
    /\ hist.extAt = NoExt /\ hand = "closed" /\ signal_received = SIGUSR1

\* C3 (as stated): when the flag is set from outside during the wait loop the
\* call ends with the cancellation error and the handle released, without a
\* wait started after the iteration in which the flag was set (the iteration
\* about to start, when it was set between two iterations), whatever the
\* driver does meanwhile.
C3_CancelWithinIteration ==
    (pc = "done" /\ ExtInLoop)
        => /\ outcome = "cancelled"
           /\ hand = "closed"
           /\ hist.waits = hist.extAt.waits
                          + (IF hist.extAt.phase = "between" THEN 1 ELSE 0)

\* C3 (amended): when the flag is set from outside during the wait loop the
\* call starts at most one more wait (none when the flag was set during a
\* wait or before that iteration's check), and the last wait decides: still
\* pending gives the cancellation error at that iteration's check, with the
\* handle released; completion gives success with the handle open; a driver
\* error gives the driver error with the handle released.  It never ends in
\* a timeout.
C3_CancelUnlessWaitDecides ==
    ExtInLoop =>
        /\ hist.waits <= hist.extAt.waits
                          + (IF hist.extAt.phase = "between" THEN 1 ELSE 0)
        /\ hist.yields <= hist.extAt.waits
        /\ outcome \in {"none", "cancelled", "success", "driver_error"}
        /\ pc \in {"ret", "done", "fatal"} =>
             /\ outcome = "cancelled" <=> (hist.completedAt = 0 /\ hist.errorAt = 0)
             /\ outcome = "success" <=> hist.completedAt = hist.waits
             /\ outcome = "driver_error" <=> hist.errorAt = hist.waits
        /\ pc = "done" =>
             /\ outcome = "success" => (hand = "open" /\ hist.closes = 0)
             /\ outcome # "success" => (hand = "closed" /\ hist.closes = 1)

C3_Witness ==
    /\ pc = "done" /\ outcome = "cancelled" /\ hand = "closed"
    /\ hist.extAt.phase = "wait" /\ hist.extAt.waits = 2 /\ hist.waits = 2
    /\ ov = "complete"

\* C4: when the k-th wait is the first to report completion the call returns
\* success after exactly k waits (k*50 ms of budget used, k at most 20 per
\* second of timeout), with the handle open and without having set the flag.
C4_SuccessAtKthWait ==
    (hist.completedAt >= 1) =>
        /\ pc \in {"ret", "done", "fatal"}
        /\ outcome = "success"
        /\ waitRet = 0
        /\ hist.waits = hist.completedAt
        /\ hist.completedAt <= WaitsFor(timeout)
        /\ timeout * 1000 - timeout_msec = hist.completedAt * poll_interval_ms
        /\ hist.checks = hist.completedAt - 1
        /\ ~hist.selfSet
        /\ hist.closes = 0
        /\ pc # "ret" => hand = "open"

C4_Witness ==
    /\ pc = "done" /\ outcome = "success" /\ hist.completedAt = 3
    /\ hist.waits = 3 /\ hand = "open" /\ timeout = 1

\* C5: an immediate success of NEW_PEER ends the call with success at once:
\* no wait, no read or write of the flag, no yield, handle open, for every
\* timeout and every value the flag had at the call.
C5_SyncSuccessNoPolling ==
    (hist.newPeerRes = "success") =>
        /\ pc \in {"done", "fatal"}
        /\ outcome = "success"
        /\ hist.waits = 0 /\ hist.checks = 0 /\ hist.yields = 0
        /\ ~hist.selfSet
        /\ hist.closes = 0
        /\ hand = "open"
        /\ ov = "none"

C5_Witness ==
    /\ hist.newPeerRes = "success" /\ pc = "done" /\ timeout = 0
    /\ hist.extAt.phase = "idle" /\ signal_received = SIGTERM /\ hand = "open"

\* C6: a wait that fails with a status other than WAIT_TIMEOUT and
\* ERROR_IO_INCOMPLETE ends the polling in that iteration (no check, no
\* yield, no further wait), sets the flag to SIGUSR1, and the call releases
\* the handle and returns the error; WAIT_TIMEOUT and ERROR_IO_INCOMPLETE are
\* never taken for errors and lead to the check only.
C6_DriverErrorStopsPolling ==
    /\ (err \notin {"none", "WAIT_TIMEOUT", "ERROR_IO_INCOMPLETE"}) =>
          /\ pc = "ret"
          /\ outcome = "driver_error"
          /\ waitRet = -1
          /\ hist.errorAt = hist.waits
          /\ hist.checks = hist.waits - 1
          /\ hist.yields = hist.waits - 1
          /\ hist.selfSet
          /\ hist.extAt = NoExt => signal_received = SIGUSR1
    /\ (err \in {"WAIT_TIMEOUT", "ERROR_IO_INCOMPLETE"}) =>
          /\ hist.errorAt = 0
          /\ outcome \in {"none", "cancelled"}
          /\ pc \in {"check", "yield", "ret"}
          /\ pc = "ret" => hist.checks = hist.waits
    /\ (outcome = "driver_error") =>
          /\ hist.errorAt = hist.waits
          /\ hist.checks = hist.waits - 1
          /\ hist.yields = hist.waits - 1
          /\ pc \in {"ret", "done", "fatal"}
          /\ pc # "ret" => (hand = "closed" /\ hist.closes = 1)

C6_Witness ==
    /\ pc = "done" /\ outcome = "driver_error" /\ hist.waits = 2
    /\ hist.extAt = NoExt /\ signal_received = SIGUSR1 /\ hand = "closed"

\* keys: the last call was dco_new_key with a key buffer shorter than the
\* key length its cipher requires
ShortKeyBuffer ==
    /\ call.op = "dco_new_key"
    /\ \/ call.args[5] < cipher_kt_key_size(call.args[4])
       \/ call.args[6] < cipher_kt_key_size(call.args[4])

\* C7: dco_new_key with an encrypt or decrypt key buffer shorter than the
\* cipher's key length ends in a fatal key-length-mismatch error, reads no
\* byte past the buffer and sends no install-key request.
C7_ShortKeyRejected ==
    ShortKeyBuffer =>
        /\ pc = "fatal"
        /\ fatal = "key length mismatch"
        /\ call.beyond = 0
        /\ call.reqs = <<>>

\* position of the first NEW_PEER request among the requests sent, 0 if none
NewPeerAt ==
    IF \E i \in 1..Len(ioctls) : ioctls[i] = "OVPN_IOCTL_NEW_PEER"
    THEN CHOOSE i \in 1..Len(ioctls) :
            /\ ioctls[i] = "OVPN_IOCTL_NEW_PEER"
            /\ \A j \in 1..(i - 1) : ioctls[j] # "OVPN_IOCTL_NEW_PEER"
    ELSE 0

\* C8 (as stated): START_VPN is issued exactly once on the handle, and before
\* the NEW_PEER request: no NEW_PEER reaches the driver without it.
C8_StartBeforeNewPeer ==
    (NewPeerAt # 0) =>
        /\ \E j \in 1..(NewPeerAt - 1) : ioctls[j] = "OVPN_IOCTL_START_VPN"
        /\ StartCount = 1

\* C8 (amended): dco_create_socket submits NEW_PEER as the first request on
\* the handle it has just opened, without START_VPN; START_VPN is issued only
\* by dco_start_tun, one request per call, on the handle dco_create_socket
\* returned, so every START_VPN follows the NEW_PEER request of its handle.
C8_StartOnlyAfterNewPeer ==
    /\ (ioctls # <<>>) =>
          /\ hist.opens = 1
          /\ ioctls[1] = "OVPN_IOCTL_NEW_PEER"
          /\ \A i \in 2..Len(ioctls) : ioctls[i] = "OVPN_IOCTL_START_VPN"
    /\ (StartCount > 0) =>
          /\ pc \in {"done", "fatal"}
          /\ outcome = "success"
          /\ dco_tt = "tt"
    /\ (pc \notin {"done", "fatal"}) => (StartCount = 0 /\ dco_tt = "NULL")

C8_Witness ==
    /\ pc = "done" /\ hand = "open"
    /\ ioctls = <<"OVPN_IOCTL_NEW_PEER", "OVPN_IOCTL_START_VPN", "OVPN_IOCTL_START_VPN">>

\* binding is requested and no local candidate has the remote's family
NoMatchingLocal ==
    /\ pc # "idle"
    /\ bind_local
    /\ \A i \in 1..Len(bind) : bind[i] # RemoteFamily

\* C9: with binding requested and no local candidate of the remote's family
\* the call ends in the fatal bind error before a handle is opened or a
\* request sent, and leaves the flag as it was.
C9_NoMatchIsFatal ==
    NoMatchingLocal =>
        /\ pc = "fatal"
        /\ fatal = "bind"
        /\ hist.opens = 0
        /\ hand = "none"
        /\ ioctls = <<>>
        /\ submitted = ZeroPeer
        /\ ~hist.selfSet
        /\ hist.extAt.phase \in {"none", "idle"}
        /\ (hist.extAt = NoExt) <=> (signal_received = 0)

C9_Witness ==
    /\ pc = "fatal" /\ fatal = "bind" /\ bind_local
    /\ bind = <<"AF_INET6", "AF_INET6">> /\ RemoteFamily = "AF_INET"

\* C10: with binding requested, the local endpoint of the submitted
\* descriptor is the first candidate, in list order, of the remote's family.
C10_FirstMatchingLocal ==
    (ioctls # <<>> /\ bind_local) =>
        \E i \in 1..Len(bind) :
            /\ bind[i] = RemoteFamily
            /\ \A j \in 1..(i - 1) : bind[j] # RemoteFamily
            /\ LocalOf(submitted) = BindSockaddr(bind, i)
            /\ LocalOf(submitted).addr = i

C10_Witness ==
    /\ ioctls # <<>> /\ bind_local /\ RemoteFamily = "AF_INET"
    /\ bind = <<"AF_INET6", "AF_INET">>
    /\ submitted.Local.Addr4.addr = 2

C10_WitnessTwoMatches ==
    /\ ioctls # <<>> /\ bind_local /\ RemoteFamily = "AF_INET6"
    /\ bind = <<"AF_INET6", "AF_INET6">>
    /\ submitted.Local.Addr6.addr = 1

\* keys: the last call was dco_new_key; its arguments by name
NewKeyCalled == call.op = "dco_new_key"
NewKeyCipher == call.args[4]

\* the install-key request a dco_new_key call sent carries the call's peer
\* id, key id, slot and the driver code of its cipher
CarriesArguments(req) ==
    /\ req.code = "OVPN_IOCTL_NEW_KEY"
    /\ req.payload.PeerId = call.args[1]
    /\ req.payload.KeyId = call.args[2]
    /\ req.payload.KeySlot = call.args[3]
    /\ req.payload.CipherAlg = dco_get_cipher(NewKeyCipher)

\* C11, the part about ciphers without a positive driver code: dco_new_key
\* ends fatally and no install-key request has been sent.
NoRequestForBadCipher ==
    (NewKeyCalled /\ dco_get_cipher(NewKeyCipher) <= 0) =>
        /\ pc = "fatal"
        /\ fatal \in {"unsupported cipher", "assert"}
        /\ call.ret = -1
        /\ call.reqs = <<>>

C11_WitnessNone ==
    /\ NewKeyCalled /\ NewKeyCipher = "none" /\ pc = "fatal" /\ fatal = "assert"
    /\ call.reqs = <<>>

\* everything a later dco_new_key, dco_swap_keys or ovpn_set_peer call
\* depends on: the process, the handle and the driver's state
KeyState == <<connVars, slots, active, keepalive>>

\* the step is an ovpn_set_peer call whose request the driver rejected
SetPeerRejectedStep ==
    /\ call'.op = "ovpn_set_peer"
    /\ call'.ret = -1

\* C12: an ovpn_set_peer call whose OVPN_IOCTL_SET_PEER request is rejected
\* returns -1 without ending the process and changes nothing else: both key
\* slots, the active slot, the keepalive parameters, the handle and the rest
\* of the process state are as before, so every later call starts from the
\* state it would have started from without the failed call.
C12_FailedSetPeerChangesNothing ==
    [][SetPeerRejectedStep =>
          /\ Len(call'.reqs) = 1
          /\ call'.reqs[1].code = "OVPN_IOCTL_SET_PEER"
          /\ pc' = "done" /\ fatal' = "none"
          /\ hand' = "open" /\ hist'.closes = 0
          /\ slots' = slots /\ active' = active /\ keepalive' = keepalive
          /\ KeyState' = KeyState
          /\ ENABLED dco_new_key /\ ENABLED dco_swap_keys /\ ENABLED ovpn_set_peer]_vars

C12_Witness ==
    /\ call.op = "ovpn_set_peer" /\ call.ret = -1 /\ call.args[2] = 0
    /\ pc = "done" /\ hand = "open"
    /\ slots["OVPN_KEY_SLOT_PRIMARY"].CipherAlg = 1
    /\ slots["OVPN_KEY_SLOT_SECONDARY"].CipherAlg = 0
    /\ active = "OVPN_KEY_SLOT_SECONDARY"
    /\ keepalive = [KeepaliveInterval |-> 10, KeepaliveTimeout |-> 60]

\* the step is a dco_swap_keys call
SwapStep == call'.op = "dco_swap_keys"

\* C13: every dco_swap_keys call sends exactly one OVPN_IOCTL_SWAP_KEYS
\* request without payload and returns success iff the driver accepts it,
\* whatever calls preceded it: after any number of swaps and key installs a
\* further swap can succeed, an accepted call toggles the active slot once,
\* and no call changes the key material of either slot.
C13_SwapIsOneStatelessToggle ==
    /\ [](Connected =>
            ENABLED (dco_swap_keys /\ call'.ret = 0 /\ active' = OtherSlot(active)))
    /\ [][SwapStep =>
            /\ Len(call'.reqs) = 1
            /\ call'.reqs[1] = [code |-> "OVPN_IOCTL_SWAP_KEYS", payload |-> <<>>]
            /\ slots' = slots
            /\ keepalive' = keepalive
            /\ call'.ret = 0 <=> pc' = "done"
            /\ call'.ret = 0 => (active' = OtherSlot(active) /\ active' # active)
            /\ call'.ret # 0 => (active' = active /\ fatal' = "OVPN_IOCTL_SWAP_KEYS")
            /\ (call.op = "dco_swap_keys" /\ call'.ret = 0)
                  => OtherSlot(active') = active]_vars

\* a swap succeeded after an earlier swap and a key install: the active slot
\* is back where it started
C13_Witness ==
    /\ call.op = "dco_swap_keys" /\ call.ret = 0 /\ pc = "done"
    /\ active = "OVPN_KEY_SLOT_PRIMARY"
    /\ slots["OVPN_KEY_SLOT_SECONDARY"].CipherAlg = 1
    /\ slots["OVPN_KEY_SLOT_SECONDARY"].KeyId = 1

\* the step is a dco_del_key call
DelKeyStep == call'.op = "dco_del_key"

\* C14: dco_del_key(peer, slot) always returns 0 and does nothing: it sends
\* no request, and the key material of the named slot, of the other slot and
\* the active slot are as before; a key installed before the call is still
\* installed after it and a following dco_swap_keys can still make its slot
\* the active one.
C14_DelKeyIsNoOp ==
    /\ [][DelKeyStep =>
            /\ call'.ret = 0
            /\ call'.reqs = <<>>
            /\ slots' = slots
            /\ active' = active
            /\ KeyState' = KeyState]_vars
    /\ [](call.op = "dco_del_key" =>
            /\ pc = "done" /\ hand = "open"
            /\ ENABLED (dco_swap_keys /\ call'.ret = 0 /\ slots' = slots
                          /\ active' = OtherSlot(active)))

C14_Witness ==
    /\ call.op = "dco_del_key" /\ call.ret = 0 /\ call.reqs = <<>>
    /\ call.args[2] = "OVPN_KEY_SLOT_SECONDARY"
    /\ slots["OVPN_KEY_SLOT_SECONDARY"].CipherAlg = 1
    /\ slots["OVPN_KEY_SLOT_SECONDARY"].Encrypt.KeyLen = 32
    /\ active = "OVPN_KEY_SLOT_PRIMARY"

\* number of requests of one code among the requests sent on the handle
CountOf(code) == Cardinality({i \in 1..Len(ioctls) : ioctls[i] = code})

\* a key or peer-parameter call from this state that sends more than one
\* request, or that goes on after the driver rejected its request
KeyCallRetries ==
    \/ ENABLED (dco_swap_keys /\ Len(call'.reqs) > 1)
    \/ ENABLED (ovpn_set_peer /\ Len(call'.reqs) > 1)
    \/ ENABLED (dco_del_key /\ Len(call'.reqs) > 0)
    \/ ENABLED (dco_new_key
                  /\ (Len(call'.reqs) > 1
                        \/ (call'.reqs # <<>> /\ slots' = slots /\ call'.ret = 0)))
    \/ ENABLED (dco_swap_keys /\ active' = active /\ call'.ret = 0)
    \/ ENABLED (ovpn_set_peer /\ call'.ret = 0 /\ keepalive' # call'.reqs[1].payload)

\* the tunnel has just been connected and started: the request completed at
\* once or at the first wait and no signal arrived
FreshlyConnected ==
    Connected /\ StartCount = 1 /\ hist.waits <= 1 /\ hist.extAt = NoExt

\* C15: no operation retries a driver request.  One run of dco_create_socket
\* opens the handle once and sends OVPN_IOCTL_NEW_PEER at most once, whatever
\* the waits report; once it has failed (driver error, timeout, cancellation
\* or a fatal error) no further request is sent; and on a freshly connected
\* tunnel one dco_new_key, dco_swap_keys or ovpn_set_peer call sends at most
\* one request and a rejected request ends the call with an error.
C15_NoRetry ==
    /\ [](/\ CountOf("OVPN_IOCTL_NEW_PEER") <= 1
          /\ hist.opens <= 1
          /\ (hist.waits > 0 \/ pc \in LoopPcs) => CountOf("OVPN_IOCTL_NEW_PEER") = 1
          /\ (outcome \in {"driver_error", "timeout", "cancelled"}
                \/ fatal = "OVPN_IOCTL_NEW_PEER")
                => ioctls = <<"OVPN_IOCTL_NEW_PEER">>
          /\ FreshlyConnected => ~KeyCallRetries)
    /\ [][(pc = "fatal" \/ outcome \in {"driver_error", "timeout", "cancelled"})
            => ioctls' = ioctls]_vars

C15_Witness ==
    /\ pc = "done" /\ outcome = "cancelled" /\ hist.waits = 3 /\ hist.yields = 2
    /\ ioctls = <<"OVPN_IOCTL_NEW_PEER">> /\ hand = "closed"

C15_WitnessStartRejected ==
    /\ pc = "fatal" /\ fatal = "OVPN_IOCTL_START_VPN" /\ hand = "open"
    /\ ioctls = <<"OVPN_IOCTL_NEW_PEER", "OVPN_IOCTL_START_VPN">>

\* what the caller of dco_create_socket can see of its result: the state of
\* the handle and the value of the flag (the function returns nothing)
VisibleResult == [hand |-> hand, signal_received |-> signal_received]

\* lines 110-112 and 219-221: what a driver error during a wait leaves
\* behind; lines 125-126 and 219-221: a timeout leaves the same
DriverFailureResult == [hand |-> "closed", signal_received |-> SIGUSR1]

\* C16: a call that ends because the flag was set from outside leaves a
\* caller-visible result (handle state and flag value) different from the one
\* a driver error during a wait, or a timeout, leaves, for every signal.
C16_CancelDistinctFromFailure ==
    (pc = "done" /\ outcome = "cancelled") => VisibleResult # DriverFailureResult

\* a driver error during a wait, with no signal from outside, leaves
\* DriverFailureResult
C16_DriverFailureSeen ==
    /\ pc = "done" /\ outcome = "driver_error" /\ hist.extAt = NoExt
    /\ VisibleResult = DriverFailureResult

\* the two family variants of an endpoint of a descriptor: the one of family
\* fam and the other one
VariantOf(endpoint, fam) ==
    IF fam = "AF_INET6" THEN endpoint.Addr6 ELSE endpoint.Addr4
OtherVariantOf(endpoint, fam) ==
    IF fam = "AF_INET6" THEN endpoint.Addr4 ELSE endpoint.Addr6

\* C17: every descriptor sent with OVPN_IOCTL_NEW_PEER fills exactly one
\* family variant of each endpoint, the one of the remote's family, and both
\* endpoints carry that family; without bind_local the local endpoint is the
\* wildcard (any address, port 0) of the remote's family whatever the bind
\* list holds; Proto is TCP iff ai_protocol is IPPROTO_TCP or ai_socktype is
\* SOCK_STREAM, and UDP otherwise.
C17_DescriptorWellFormed ==
    (ioctls # <<>>) =>
        /\ RemoteFamily \in {"AF_INET", "AF_INET6"}
        /\ submitted = peer
        /\ VariantOf(submitted.Remote, RemoteFamily) = remoteaddr.ai_addr
        /\ VariantOf(submitted.Remote, RemoteFamily).sin_family = RemoteFamily
        /\ VariantOf(submitted.Local, RemoteFamily).sin_family = RemoteFamily
        /\ OtherVariantOf(submitted.Remote, RemoteFamily) = ZeroAddr
        /\ OtherVariantOf(submitted.Local, RemoteFamily) = ZeroAddr
        /\ ~bind_local =>
              VariantOf(submitted.Local, RemoteFamily)
                  = [sin_family |-> RemoteFamily, addr |-> 0, port |-> 0]
        /\ submitted.Proto \in {"OVPN_PROTO_TCP", "OVPN_PROTO_UDP"}
        /\ submitted.Proto = "OVPN_PROTO_TCP"
              <=> (remoteaddr.ai_protocol = "IPPROTO_TCP"
                      \/ remoteaddr.ai_socktype = "SOCK_STREAM")

C17_Witness ==
    /\ ioctls # <<>> /\ ~bind_local /\ bind = <<"AF_INET", "AF_INET6">>
    /\ RemoteFamily = "AF_INET6"
    /\ submitted.Local.Addr6 = [sin_family |-> "AF_INET6", addr |-> 0, port |-> 0]
    /\ remoteaddr.ai_protocol = "IPPROTO_UDP" /\ remoteaddr.ai_socktype = "SOCK_STREAM"
    /\ submitted.Proto = "OVPN_PROTO_TCP"

\* where each position of the loop body stands in its iteration: waits,
\* checks and yields done so far
IterationCounts ==
    /\ pc = "loop"    => (hist.checks = hist.waits /\ hist.yields = hist.waits)
    /\ pc = "waiting" => (hist.checks = hist.waits - 1 /\ hist.yields = hist.waits - 1)
    /\ pc = "check"   => (hist.checks = hist.waits - 1 /\ hist.yields = hist.waits - 1
                            /\ StillPending(err))
    /\ pc = "yield"   => (hist.checks = hist.waits /\ hist.yields = hist.waits - 1
                            /\ StillPending(err))
    /\ pc \in LoopPcs =>
          (hist.waits >= 0 /\ timeout_msec = timeout * 1000 - hist.waits * poll_interval_ms)

\* how an iteration that returns has gone: no yield in it, a check only when
\* it returns the cancellation
ReturningIteration ==
    /\ outcome \in {"success", "driver_error"} /\ WentPending
          => (hist.checks = hist.waits - 1 /\ hist.yields = hist.waits - 1)
    /\ outcome = "cancelled"
          => (hist.checks = hist.waits /\ hist.yields = hist.waits - 1)
    /\ outcome = "timeout"
          => (hist.checks = hist.waits /\ hist.yields = hist.waits)

\* the order of the steps of one iteration
IterationOrder ==
    /\ hist'.waits # hist.waits =>
          /\ pc = "loop" /\ pc' = "waiting"
          /\ hist'.waits = hist.waits + 1
          /\ timeout_msec' = timeout_msec - poll_interval_ms
    /\ (pc = "waiting" /\ pc' # pc) =>
          /\ pc' \in {"check", "ret"}
          /\ pc' = "check" <=> StillPending(err')
          /\ timeout_msec' = timeout_msec
    /\ hist'.checks # hist.checks =>
          /\ pc = "check" /\ pc' \in {"yield", "ret"}
          /\ hist'.checks = hist.checks + 1
          /\ pc' = "yield" <=> signal_received' = 0
    /\ hist'.yields # hist.yields =>
          /\ pc = "yield" /\ pc' = "loop"
          /\ hist'.yields = hist.yields + 1
    /\ (pc' = "yield" /\ pc # "yield") => (pc = "check" /\ outcome' = "none")
    /\ (pc' = "waiting" /\ pc # "waiting") => pc = "loop"
    /\ (pc' = "check" /\ pc # "check") => pc = "waiting"

\* C18: every iteration of the wait loop takes its steps in one order: the
\* budget is decremented by 50 ms, one wait bounded by 50 ms is made, the flag
\* is checked once and only if the wait reported still pending, the yield to
\* the management channel is made once and only if the flag was clear; an
\* iteration that returns success, a driver error or the cancellation has no
\* yield in it.
C18_IterationOrder ==
    /\ [](IterationCounts /\ ReturningIteration)
    /\ [][IterationOrder]_vars

C18_Witness ==
    /\ pc = "yield" /\ hist.waits = 2 /\ hist.checks = 2 /\ hist.yields = 1
    /\ timeout_msec = 900 /\ signal_received = 0 /\ err = ERROR_IO_INCOMPLETE

\* the request was answered "pending" and the call was given no time at all
PendingWithZeroTimeout == WentPending /\ timeout = 0

\* C19: with a timeout of 0 seconds and a pending NEW_PEER request the call
\* makes no wait, no check of the flag and no yield: it leaves the loop at
\* once, stores SIGUSR1 in the flag, reports the timeout and releases the
\* handle, also when the driver has completed the request meanwhile.
C19_ZeroTimeoutNeverWaits ==
    /\ [](PendingWithZeroTimeout =>
            /\ hist.waits = 0 /\ hist.checks = 0 /\ hist.yields = 0
            /\ hist.completedAt = 0 /\ hist.errorAt = 0
            /\ timeout_msec = 0
            /\ pc \in {"loop", "ret", "done", "fatal"}
            /\ pc # "loop" =>
                  /\ outcome = "timeout"
                  /\ waitRet = -1
                  /\ hist.selfSet
                  /\ StartCount = 0
            /\ pc \in {"done", "fatal"} => (hand = "closed" /\ hist.closes = 1))
    /\ [][(PendingWithZeroTimeout /\ pc = "loop" /\ pc' # "loop") =>
            /\ pc' = "ret"
            /\ signal_received' = SIGUSR1
            /\ outcome' = "timeout"
            /\ ov' = ov]_vars

C19_Witness ==
    /\ PendingWithZeroTimeout /\ pc = "done" /\ outcome = "timeout"
    /\ ov = "complete" /\ hist.waits = 0 /\ hand = "closed"
    /\ signal_received = SIGUSR1 /\ hist.extAt = NoExt

\* the flag was already set when dco_create_socket was called
FlagSetAtCall == hist.extAt.phase = "idle"

\* the call got past the building of the descriptor
DescriptorBuilt == pc \notin {"idle", "open"} /\ fatal \notin {"bind", "assert"}

\* C20: the flag is read only after a bounded wait has reported still
\* pending.  A flag already set at the call keeps neither the handle from
\* being opened nor the NEW_PEER request from being sent, and a wait that
\* reports completion makes the call return success with the handle open
\* whatever the flag holds.
C20_FlagReadOnlyAfterPendingWait ==
    /\ [](/\ hist.checks <= hist.waits
          /\ pc \in {"idle", "open", "submit"} => hist.checks = 0
          /\ pc = "open" => ENABLED create_dco_handle
          /\ pc = "submit" => ENABLED dco_create_socket_new_peer
          /\ (FlagSetAtCall /\ DescriptorBuilt) => hist.opens = 1
          /\ (FlagSetAtCall /\ DescriptorBuilt /\ pc # "submit")
                => (ioctls # <<>> /\ ioctls[1] = "OVPN_IOCTL_NEW_PEER")
          /\ outcome = "cancelled" => (hist.checks = hist.waits /\ hist.waits >= 1)
          /\ (hist.completedAt >= 1 \/ hist.newPeerRes = "success") =>
                /\ outcome = "success"
                /\ hist.closes = 0
                /\ pc # "ret" => hand = "open")
    /\ [][/\ hist'.checks # hist.checks =>
                (pc = "check" /\ StillPending(err) /\ hist.checks = hist.waits - 1)
          /\ (pc = "waiting" /\ ov = "complete" /\ pc' # pc) =>
                /\ pc' = "ret"
                /\ outcome' = "success"
                /\ waitRet' = 0
                /\ signal_received' = signal_received]_vars

C20_Witness ==
    /\ FlagSetAtCall /\ signal_received = SIGTERM /\ ~hist.selfSet
    /\ pc = "done" /\ outcome = "success" /\ hand = "open"
    /\ hist.completedAt = 1 /\ hist.checks = 0
    /\ ioctls = <<"OVPN_IOCTL_NEW_PEER">>

====
